---- MODULE Spec2Model ----
(***************************************************************************)
(* Model of radix::UniversalRadixSort<T> (src/universal_radix_sort.hpp).   *)
(*                                                                         *)
(* A record is a sequence of sizeof(T) bytes, index 1 being the byte at    *)
(* the lowest address.  The float/double transforms read the record as an  *)
(* unsigned integer through a union; on the little-endian layout the code  *)
(* is written for, the sign bit of that integer is the top bit of the      *)
(* highest-addressed byte and ~u is the byte-wise complement, so the bit   *)
(* operations are modelled byte-wise.                                      *)
(***************************************************************************)
EXTENDS Integers, Sequences, FiniteSets, TLC

VARIABLES data_type_, processing_order_, direction_, elemSize, form,
          arrayNull, n, array, entry, temp_array, byte_index,
          need_post_processing, pc, error, steps, passes, ub,
          pass_input, padded_buffer, string_stride

vars == <<data_type_, processing_order_, direction_, elemSize, form,
          arrayNull, n, array, entry, temp_array, byte_index,
          need_post_processing, pc, error, steps, passes, ub,
          pass_input, padded_buffer, string_stride>>

(***************************************************************************)
(* Bounds of the model.                                                    *)
(***************************************************************************)
\* largest record count of a call
MaxN == 3

(***************************************************************************)
(* Program constants.                                                      *)
(***************************************************************************)
RADIX_BASE == 256
SIGN_BIT_MASK == 128
SizeofFloat == 4
SizeofDouble == 8

DataTypes == {"UNSIGNED_OR_STRING", "SIGNED_INTEGER", "IEEE754_FLOAT",
              "IEEE754_DOUBLE"}
\* a DataType value outside the four enumerators (static_cast of another int)
DataTypeValues == DataTypes \cup {"UNRECOGNIZED"}
ProcessingOrders == {"LSB_FIRST", "MSB_FIRST"}
Directions == {"ASCENDING", "DESCENDING"}
ErrorCodes == {"SUCCESS", "NULL_POINTER", "INVALID_ELEMENT_SIZE",
               "MEMORY_ALLOCATION", "UNSUPPORTED_DATA_TYPE"}
\* what a failed call propagates: a RadixException code, or std::bad_alloc
\* from operator new / std::vector
Thrown == ErrorCodes \cup {"BAD_ALLOC"}

\* sizeof(T) of the element types the model instantiates the template with
ElemSizes == {1, 4, 8}

\* content of a scratch slot that was never written
Uninit == << >>

(***************************************************************************)
(* Input records: bit patterns chosen so that both halves of every         *)
(* transform, several byte positions and NaN / negative zero occur.        *)
(***************************************************************************)
MkRec(W, lo, mid, hi) ==
  [i \in 1..W |-> IF i = W THEN hi ELSE IF i = 1 THEN lo
                  ELSE IF i = 2 THEN mid ELSE 0]

Patterns(W) ==
  { MkRec(W, 1, 0, 0),        \* 1
    MkRec(W, 0, 1, 0),        \* 256
    MkRec(W, 0, 0, 128),      \* most negative integer, float -0.0
    MkRec(W, 1, 0, 128),      \* negative, float: tiny negative
    [i \in 1..W |-> 255] }    \* -1, float: NaN

\* values an uninitialised scratch slot may turn out to hold
Garbage(W) == { MkRec(W, 1, 0, 0), [i \in 1..W |-> 170] }

(***************************************************************************)
(* Bit transforms (lines 326-414).                                         *)
(***************************************************************************)
\* b ^ 0x80 on one byte
XorSignBit(b) == IF b >= SIGN_BIT_MASK THEN b - SIGN_BIT_MASK
                 ELSE b + SIGN_BIT_MASK

\* ~u, byte by byte
FlipAllBits(rec) == [i \in 1..Len(rec) |-> (RADIX_BASE - 1) - rec[i]]

\* u ^ SIGN_BIT_MASK: the sign bit lives in the highest-addressed byte
FlipSignBit(rec) ==
  [i \in 1..Len(rec) |-> IF i = Len(rec) THEN XorSignBit(rec[i]) ELSE rec[i]]

\* u & SIGN_BIT_MASK
SignBitSet(rec) == rec[Len(rec)] >= SIGN_BIT_MASK

\* flip_msb_for_signed_types with the sign mask misplaced on the lowest byte
FlipMsbRecord_LowByte(rec) ==
  [i \in 1..Len(rec) |-> IF i = 1 THEN XorSignBit(rec[i]) ELSE rec[i]]

\* one iteration of flip_msb_for_signed_types: bytes[i*W + (W-1)] ^= 0x80
FlipMsbRecord(rec) == FlipSignBit(rec)

flip_msb_for_signed_types(arr) ==
  [i \in 1..Len(arr) |-> FlipMsbRecord(arr[i])]

\* the inverse branch testing the sign the way the forward branch does
FloatRecord_SameTest(rec, is_pre_process) ==
  IF SignBitSet(rec) THEN FlipAllBits(rec) ELSE FlipSignBit(rec)

\* one iteration of float_pre_post_processing / double_pre_post_processing
FloatRecord(rec, is_pre_process) ==
  IF is_pre_process
  THEN IF SignBitSet(rec) THEN FlipAllBits(rec) ELSE FlipSignBit(rec)
  ELSE IF SignBitSet(rec) THEN FlipSignBit(rec) ELSE FlipAllBits(rec)

float_pre_post_processing(arr, is_pre_process) ==
  [i \in 1..Len(arr) |-> FloatRecord(arr[i], is_pre_process)]

double_pre_post_processing(arr, is_pre_process) ==
  [i \in 1..Len(arr) |-> FloatRecord(arr[i], is_pre_process)]

\* pre_process_data: <<buffer after, need_post_processing>>
pre_process_data(type, arr) ==
  CASE type = "IEEE754_FLOAT"  -> <<float_pre_post_processing(arr, TRUE), TRUE>>
    [] type = "IEEE754_DOUBLE" -> <<double_pre_post_processing(arr, TRUE), TRUE>>
    [] type = "SIGNED_INTEGER" -> <<flip_msb_for_signed_types(arr), TRUE>>
    [] OTHER                   -> <<arr, FALSE>>

post_process_data(type, arr) ==
  CASE type = "IEEE754_FLOAT"  -> float_pre_post_processing(arr, FALSE)
    [] type = "IEEE754_DOUBLE" -> double_pre_post_processing(arr, FALSE)
    [] type = "SIGNED_INTEGER" -> flip_msb_for_signed_types(arr)
    [] OTHER                   -> arr

(***************************************************************************)
(* validate_data_type (lines 184-208): the code thrown, or SUCCESS.        *)
(***************************************************************************)
\* validate_data_type with the two size checks left out
validate_data_type_NoSizeCheck(type, element_size) ==
  IF type \in DataTypes THEN "SUCCESS" ELSE "UNSUPPORTED_DATA_TYPE"

validate_data_type(type, element_size) ==
  CASE type = "IEEE754_FLOAT" ->
         IF element_size # SizeofFloat THEN "INVALID_ELEMENT_SIZE"
         ELSE "SUCCESS"
    [] type = "IEEE754_DOUBLE" ->
         IF element_size # SizeofDouble THEN "INVALID_ELEMENT_SIZE"
         ELSE "SUCCESS"
    [] type \in {"SIGNED_INTEGER", "UNSIGNED_OR_STRING"} -> "SUCCESS"
    [] OTHER -> "UNSUPPORTED_DATA_TYPE"

(***************************************************************************)
(* counting_sort_byte (lines 424-452).                                     *)
(***************************************************************************)
\* count[] after the histogram loop and the prefix-sum loop: count[v] is the
\* number of records whose byte at byte_index is <= v
CumulativeCount(arr, b) ==
  [v \in 0..(RADIX_BASE - 1) |->
     Cardinality({i \in 1..Len(arr) : arr[i][b + 1] <= v})]

\* the output loop "for (size_t i = n; --i > 0;)": i is the value of the
\* index after the decrement (0-based), so the body runs for i = n-1 .. 1
\* "count[byte_value]--" for "--count[byte_value]"
OutputPos_PostDecrement(count, byte_value) == count[byte_value]

\* line 445: size_t outputPos = --count[byte_value]
OutputPos(count, byte_value) == count[byte_value] - 1

RECURSIVE PlaceFrom(_, _, _, _, _)
PlaceFrom(arr, b, i, count, temp) ==
  IF i > 0
  THEN LET byte_value == arr[i + 1][b + 1]
           outputPos  == OutputPos(count, byte_value)
       IN  PlaceFrom(arr, b, i - 1,
                     [count EXCEPT ![byte_value] = outputPos],
                     [temp EXCEPT ![outputPos + 1] = arr[i + 1]])
  ELSE temp

\* the iterations of the output loop, in order: the index i, the bucket
\* counter before its decrement and the output position
RECURSIVE PlaceLog(_, _, _, _)
PlaceLog(arr, b, i, count) ==
  IF i > 0
  THEN LET byte_value == arr[i + 1][b + 1]
           outputPos  == OutputPos(count, byte_value)
       IN  <<[index |-> i, counter |-> count[byte_value],
              outputPos |-> outputPos]>>
             \o PlaceLog(arr, b, i - 1,
                         [count EXCEPT ![byte_value] = outputPos])
  ELSE << >>

\* the scratch buffer when the output loop ends
ScratchAfterPass(arr, b, temp) ==
  PlaceFrom(arr, b, Len(arr) - 1, CumulativeCount(arr, b), temp)

\* the final memcpy reads every scratch slot; one never written holds
\* whatever was there: g
ReadScratch(temp, g) ==
  [i \in 1..Len(temp) |-> IF temp[i] = Uninit THEN g ELSE temp[i]]

(***************************************************************************)
(* radix_sort_strings (lines 461-493).                                     *)
(***************************************************************************)
\* strncmp(a, b, k): < 0, 0 or > 0 as -1, 0, 1; bytes compare as unsigned
\* char and the comparison stops after a terminating zero byte
\* strncmp with the bytes compared as signed char
RECURSIVE StrncmpFrom_SignedChar(_, _, _, _)
StrncmpFrom_SignedChar(a, b, i, k) ==
  LET signed(x) == IF x >= SIGN_BIT_MASK THEN x - RADIX_BASE ELSE x
  IN  IF i > k THEN 0
      ELSE IF a[i] # b[i] THEN (IF signed(a[i]) < signed(b[i]) THEN -1 ELSE 1)
      ELSE IF a[i] = 0 THEN 0
      ELSE StrncmpFrom_SignedChar(a, b, i + 1, k)

RECURSIVE StrncmpFrom(_, _, _, _)
StrncmpFrom(a, b, i, k) ==
  IF i > k THEN 0
  ELSE IF a[i] # b[i] THEN (IF a[i] < b[i] THEN -1 ELSE 1)
  ELSE IF a[i] = 0 THEN 0
  ELSE StrncmpFrom(a, b, i + 1, k)

strncmp(a, b, k) == StrncmpFrom(a, b, 1, k)

\* the lambdas handed to std::sort; p and q are pointers to records, here the
\* record indices
comparator(arr, p, q) == strncmp(arr[p], arr[q], Len(arr[p])) < 0

descending_comparator(arr, p, q) == ~comparator(arr, p, q) /\ p # q

Compare(dir, arr, p, q) ==
  IF dir = "ASCENDING" THEN comparator(arr, p, q)
  ELSE descending_comparator(arr, p, q)

\* the precondition of std::sort on the elements it is given
StrictWeakOrdering(dir, arr) ==
  LET I == 1..Len(arr)
      lt(p, q) == Compare(dir, arr, p, q)
      eq(p, q) == ~lt(p, q) /\ ~lt(q, p)
  IN  /\ \A p \in I : ~lt(p, p)
      /\ \A p, q \in I : lt(p, q) => ~lt(q, p)
      /\ \A p, q, r \in I : (lt(p, q) /\ lt(q, r)) => lt(p, r)
      /\ \A p, q, r \in I : (eq(p, q) /\ eq(q, r)) => eq(p, r)

PointerOrders(k) ==
  { f \in [1..k -> 1..k] : \A i, j \in 1..k : (i # j) => (f[i] # f[j]) }

\* the orders of the pointer vector std::sort may leave.  With a valid
\* comparator: any order sorted by it (std::sort is not stable, the order of
\* equivalent elements is unspecified).  With an invalid one the behaviour is
\* undefined; for the few elements modelled here every implementation runs
\* an insertion sort or a sorting network, whose compare-and-move steps stay
\* in bounds and leave no element before one it is strictly less than, in
\* any order of the elements the comparator cannot tell apart.  (On long
\* inputs an invalid comparator can also run the partition out of bounds.)
SortOutcomes(dir, arr) ==
  LET strictly(p, q) == Compare(dir, arr, p, q) /\ ~Compare(dir, arr, q, p)
  IN  IF StrictWeakOrdering(dir, arr)
      THEN { f \in PointerOrders(Len(arr)) :
               \A i, j \in 1..Len(arr) :
                  (i < j) => ~Compare(dir, arr, f[j], f[i]) }
      ELSE { f \in PointerOrders(Len(arr)) :
               \A i, j \in 1..Len(arr) :
                  (i < j) => ~strictly(f[j], f[i]) }

\* temp_buffer filled in sorted pointer order, then copied back
Materialize(arr, pointers) == [i \in 1..Len(arr) |-> arr[pointers[i]]]

(***************************************************************************)
(* reverse_array (lines 501-505).                                          *)
(***************************************************************************)
RECURSIVE ReverseFrom(_, _)
ReverseFrom(arr, i) ==
  IF i < Len(arr) \div 2
  THEN ReverseFrom([arr EXCEPT ![i + 1] = arr[Len(arr) - i],
                               ![Len(arr) - i] = arr[i + 1]], i + 1)
  ELSE arr

reverse_array(arr) == ReverseFrom(arr, 0)

(***************************************************************************)
(* sort (lines 114-176), one action per step of the call.                  *)
(***************************************************************************)
TypeOK ==
  /\ data_type_ \in DataTypeValues
  /\ processing_order_ \in ProcessingOrders
  /\ direction_ \in Directions
  /\ elemSize \in ElemSizes
  /\ form \in {"pointer", "vector"}
  /\ arrayNull \in BOOLEAN
  /\ n \in 0..MaxN
  /\ Len(array) = (IF arrayNull THEN 0 ELSE n)
  /\ byte_index \in 0..elemSize
  /\ need_post_processing \in BOOLEAN
  /\ error \in Thrown
  /\ ub \in BOOLEAN

\* a sorter constructed with any configuration (lines 100-105), about to be
\* called on a buffer of n records, or on a null pointer with any count; a
\* vector's data() is non-null unless the vector is empty
Init ==
  /\ data_type_ \in DataTypeValues
  /\ processing_order_ \in ProcessingOrders
  /\ direction_ \in Directions
  /\ elemSize \in ElemSizes
  /\ n \in 0..MaxN
  /\ form \in {"pointer", "vector"}
  /\ arrayNull \in BOOLEAN
  /\ (form = "vector" /\ n > 0) => ~arrayNull
  /\ IF arrayNull THEN array = << >>
     ELSE array \in [1..n -> Patterns(elemSize)]
  /\ entry = array
  /\ temp_array = << >>
  /\ byte_index = 0
  /\ need_post_processing = FALSE
  /\ pc = "call"
  /\ error = "SUCCESS"
  /\ steps = << >>
  /\ passes = << >>
  /\ ub = FALSE
  /\ pass_input = << >>
  /\ padded_buffer = << >>
  /\ string_stride = 0

\* the entry checks with "n < 1" for "n <= 1"
EnterTarget_OffByOne(isNull, count) ==
  IF isNull THEN "null" ELSE IF count < 1 THEN "done" ELSE "validate"

\* the entry checks without the null test
EnterTarget_NoNullCheck(isNull, count) ==
  IF count <= 1 THEN "done" ELSE "validate"

\* the entry checks of sort(T*, size_t), lines 115-121
EnterTarget(isNull, count) ==
  IF isNull THEN "null" ELSE IF count <= 1 THEN "done" ELSE "validate"

\* sort(std::vector<T>&) forwards a non-empty vector to sort(T*, size_t);
\* sort(T*, size_t) checks the pointer, then the count
Enter ==
  /\ pc = "call"
  /\ LET target == IF form = "vector" /\ n = 0 THEN "done"
                   ELSE EnterTarget(arrayNull, n)
     IN  /\ pc' = (IF target = "null" THEN "failed" ELSE target)
         /\ error' = (IF target = "null" THEN "NULL_POINTER" ELSE error)
  /\ UNCHANGED <<pass_input, padded_buffer, string_stride>>
  /\ UNCHANGED <<data_type_, processing_order_, direction_, elemSize, form,
                 arrayNull, n, array, entry, temp_array, byte_index,
                 need_post_processing, steps, passes, ub>>

\* line 124
Validate ==
  /\ pc = "validate"
  /\ LET code == validate_data_type(data_type_, elemSize)
     IN  /\ error' = code
         /\ pc' = (IF code = "SUCCESS" THEN "pre" ELSE "failed")
  /\ steps' = Append(steps, "validate")
  /\ UNCHANGED <<pass_input, padded_buffer, string_stride>>
  /\ UNCHANGED <<data_type_, processing_order_, direction_, elemSize, form,
                 arrayNull, n, array, entry, temp_array, byte_index,
                 need_post_processing, passes, ub>>

\* lines 126-136: the transform, then the choice of the string sorter
PreProcess ==
  /\ pc = "pre"
  /\ LET r == pre_process_data(data_type_, array)
     IN  /\ array' = r[1]
         /\ need_post_processing' = r[2]
         /\ steps' = (IF r[2] THEN Append(steps, "transform") ELSE steps)
  /\ pc' = (IF data_type_ = "UNSIGNED_OR_STRING"
               /\ processing_order_ = "MSB_FIRST"
            THEN "strings" ELSE "alloc")
  /\ UNCHANGED <<pass_input, padded_buffer, string_stride>>
  /\ UNCHANGED <<data_type_, processing_order_, direction_, elemSize, form,
                 arrayNull, n, entry, temp_array, byte_index, error, passes,
                 ub>>

\* lines 134-135: radix_sort_strings, then return
StringSort ==
  /\ pc = "strings"
  /\ \E pointers \in SortOutcomes(direction_, array) :
        array' = Materialize(array, pointers)
  /\ ub' = ~StrictWeakOrdering(direction_, array)
  /\ steps' = Append(steps, "strings")
  /\ pc' = "done"
  /\ UNCHANGED <<pass_input, padded_buffer, string_stride>>
  /\ UNCHANGED <<data_type_, processing_order_, direction_, elemSize, form,
                 arrayNull, n, entry, temp_array, byte_index,
                 need_post_processing, error, passes>>

\* lines 469-470, 486: the pointer vector or temp_buffer cannot be allocated
StringSortNoMemory ==
  /\ pc = "strings"
  /\ error' = "BAD_ALLOC"
  /\ pc' = "failed"
  /\ UNCHANGED <<pass_input, padded_buffer, string_stride>>
  /\ UNCHANGED <<data_type_, processing_order_, direction_, elemSize, form,
                 arrayNull, n, array, entry, temp_array, byte_index,
                 need_post_processing, steps, passes, ub>>

\* line 139: new T[n] leaves the n slots uninitialised
Allocate ==
  /\ pc = "alloc"
  /\ temp_array' = [i \in 1..n |-> Uninit]
  /\ steps' = Append(steps, "alloc")
  /\ byte_index' = 0
  /\ pc' = "passes"
  /\ UNCHANGED <<pass_input, padded_buffer, string_stride>>
  /\ UNCHANGED <<data_type_, processing_order_, direction_, elemSize, form,
                 arrayNull, n, array, entry, need_post_processing, error,
                 passes, ub>>

\* line 139: new T[n] throws std::bad_alloc
AllocateNoMemory ==
  /\ pc = "alloc"
  /\ error' = "BAD_ALLOC"
  /\ pc' = "failed"
  /\ UNCHANGED <<pass_input, padded_buffer, string_stride>>
  /\ UNCHANGED <<data_type_, processing_order_, direction_, elemSize, form,
                 arrayNull, n, array, entry, temp_array, byte_index,
                 need_post_processing, steps, passes, ub>>

\* the byte offset if the MSB_FIRST branch walked from the highest byte down
PassOffset_MsbDown(order, index) ==
  IF order = "LSB_FIRST" THEN index ELSE elemSize - 1 - index

\* lines 142-152: the byte offset of the pass, in either branch
PassOffset(order, index) ==
  IF order = "LSB_FIRST" THEN index ELSE index

\* one iteration of the main sorting loop: counting_sort_byte at the offset
Pass ==
  /\ pc = "passes"
  /\ byte_index < elemSize
  /\ LET b == PassOffset(processing_order_, byte_index)
         t == ScratchAfterPass(array, b, temp_array)
     IN  /\ \E g \in Garbage(elemSize) :
               /\ array' = ReadScratch(t, g)
               /\ temp_array' = ReadScratch(t, g)
         /\ passes' = Append(passes, b)
  /\ steps' = Append(steps, "pass")
  /\ byte_index' = byte_index + 1
  /\ pc' = (IF byte_index + 1 < elemSize THEN "passes" ELSE "post")
  /\ pass_input' = array
  /\ UNCHANGED <<padded_buffer, string_stride>>
  /\ UNCHANGED <<data_type_, processing_order_, direction_, elemSize, form,
                 arrayNull, n, entry, need_post_processing, error, ub>>

\* lines 154-157
PostProcess ==
  /\ pc = "post"
  /\ array' = (IF need_post_processing
               THEN post_process_data(data_type_, array) ELSE array)
  /\ steps' = (IF need_post_processing THEN Append(steps, "inverse")
               ELSE steps)
  /\ pc' = "reverse"
  /\ UNCHANGED <<pass_input, padded_buffer, string_stride>>
  /\ UNCHANGED <<data_type_, processing_order_, direction_, elemSize, form,
                 arrayNull, n, entry, temp_array, byte_index,
                 need_post_processing, error, passes, ub>>

\* the reversal condition with the direction test inverted
NeedReverse_Inverted(dir, type) ==
  dir = "ASCENDING" /\ type # "UNSIGNED_OR_STRING"

\* lines 159-163: the condition of the final reversal
NeedReverse(dir, type) ==
  dir = "DESCENDING" /\ type # "UNSIGNED_OR_STRING"

\* lines 159-164: the reversal, then the scratch buffer is released
Finish ==
  /\ pc = "reverse"
  /\ array' = (IF NeedReverse(direction_, data_type_)
               THEN reverse_array(array) ELSE array)
  /\ steps' = (IF NeedReverse(direction_, data_type_)
               THEN Append(steps, "reverse") ELSE steps)
  /\ temp_array' = << >>
  /\ pc' = "done"
  /\ UNCHANGED <<pass_input, padded_buffer, string_stride>>
  /\ UNCHANGED <<data_type_, processing_order_, direction_, elemSize, form,
                 arrayNull, n, entry, byte_index, need_post_processing,
                 error, passes, ub>>

Next ==
  \/ Enter
  \/ Validate
  \/ PreProcess
  \/ StringSort
  \/ StringSortNoMemory
  \/ Allocate
  \/ AllocateNoMemory
  \/ Pass
  \/ PostProcess
  \/ Finish

Spec == Init /\ [][Next]_vars

(***************************************************************************)
(* Orders on records, for the properties below.                            *)
(***************************************************************************)
\* a < b as unsigned integers, comparing from the highest-addressed byte
RECURSIVE ULessFrom(_, _, _)
ULessFrom(a, b, i) ==
  IF i = 0 THEN FALSE
  ELSE IF a[i] # b[i] THEN a[i] < b[i]
  ELSE ULessFrom(a, b, i - 1)

ULE(a, b) == ~ULessFrom(b, a, Len(a))

\* a < b byte by byte from the lowest address, all bytes compared (memcmp)
RECURSIVE MemLessFrom(_, _, _)
MemLessFrom(a, b, i) ==
  IF i > Len(a) THEN FALSE
  ELSE IF a[i] # b[i] THEN a[i] < b[i]
  ELSE MemLessFrom(a, b, i + 1)

MemLE(a, b) == ~MemLessFrom(b, a, 1)

Negative(rec) == rec[Len(rec)] >= 128

\* the record without its sign bit
Magnitude(rec) ==
  [i \in 1..Len(rec) |-> IF i = Len(rec) THEN rec[i] % 128 ELSE rec[i]]

IsZero(rec) == \A i \in 1..Len(rec) : Magnitude(rec)[i] = 0

\* two's-complement order
SignedLE(a, b) ==
  \/ Negative(a) /\ ~Negative(b)
  \/ Negative(a) = Negative(b) /\ ULE(a, b)

\* IEEE-754 NaN: exponent all ones, mantissa not zero (binary32 / binary64)
IsNaN(rec) ==
  LET W == Len(rec) IN
  IF W = 4
  THEN /\ rec[4] % 128 = 127 /\ rec[3] >= 128
       /\ (rec[3] % 128 # 0 \/ rec[2] # 0 \/ rec[1] # 0)
  ELSE IF W = 8
  THEN /\ rec[8] % 128 = 127 /\ rec[7] >= 240
       /\ (rec[7] % 16 # 0 \/ \E i \in 1..6 : rec[i] # 0)
  ELSE FALSE

\* numeric order of non-NaN floating-point values; -0.0 equals +0.0
FloatLE(a, b) ==
  \/ IsZero(a) /\ IsZero(b)
  \/ Negative(a) /\ ~Negative(b)
  \/ ~Negative(a) /\ ~Negative(b) /\ ULE(Magnitude(a), Magnitude(b))
  \/ Negative(a) /\ Negative(b) /\ ULE(Magnitude(b), Magnitude(a))

FloatTag == data_type_ \in {"IEEE754_FLOAT", "IEEE754_DOUBLE"}
NumericTag == data_type_ = "SIGNED_INTEGER" \/ FloatTag

NoNaN(arr) == \A i \in 1..Len(arr) : ~IsNaN(arr[i])

\* the order of the configured type: numeric for the numeric tags; for raw
\* bytes the unsigned key the pass engine sorts by (LSB_FIRST) or the
\* string order the string sorter compares by (MSB_FIRST)
TypeLE(a, b) ==
  CASE data_type_ = "SIGNED_INTEGER" -> SignedLE(a, b)
    [] FloatTag -> FloatLE(a, b)
    [] OTHER -> IF processing_order_ = "LSB_FIRST" THEN ULE(a, b)
                ELSE strncmp(a, b, Len(a)) <= 0

NonDecreasing(arr) ==
  \A i, j \in 1..Len(arr) : (i < j) => TypeLE(arr[i], arr[j])

NonIncreasing(arr) ==
  \A i, j \in 1..Len(arr) : (i < j) => TypeLE(arr[j], arr[i])

Occurrences(arr, r) == Cardinality({i \in 1..Len(arr) : arr[i] = r})

IsPermutation(a, b) ==
  /\ Len(a) = Len(b)
  /\ \A i \in 1..Len(a) : Occurrences(a, a[i]) = Occurrences(b, a[i])

Returned == pc = "done"
Failed == pc = "failed"

(***************************************************************************)
(* Properties of sort.                                                     *)
(***************************************************************************)
\* C1: when a call returns without error, the buffer is a permutation of
\* the buffer on entry.
C1_OutputIsPermutation == Returned => IsPermutation(array, entry)

\* C2: for a numeric tag, non-NaN input of at least two records and
\* direction Ascending, the buffer of a returned call is non-decreasing in
\* the type's numeric order.
C2_AscendingSorted ==
  (Returned /\ NumericTag /\ n >= 2 /\ direction_ = "ASCENDING"
     /\ NoNaN(entry))
  => NonDecreasing(array)

\* C3: for every type tag and both processing orders, direction Descending
\* leaves the buffer of a returned call non-increasing under the type's
\* order (non-NaN input for the floating-point tags).
C3_DescendingSorted ==
  (Returned /\ data_type_ \in DataTypes /\ direction_ = "DESCENDING"
     /\ (FloatTag => NoNaN(entry)))
  => NonIncreasing(array)

\* the call is sorted by the pass engine, not by the string sorter
PassEnginePath ==
  ~(data_type_ = "UNSIGNED_OR_STRING" /\ processing_order_ = "MSB_FIRST")

\* C4: a call on a buffer already sorted in the configured direction returns
\* with the buffer unchanged (stated for the calls the pass engine sorts).
C4_Idempotent ==
  (Returned /\ data_type_ \in DataTypes /\ PassEnginePath
     /\ (FloatTag => NoNaN(entry))
     /\ (IF direction_ = "ASCENDING" THEN NonDecreasing(entry)
         ELSE NonIncreasing(entry)))
  => array = entry

\* C5: a call on a buffer of zero or one record (a non-null pointer, or a
\* vector) raises no error, applies no transform, runs no pass, allocates
\* no scratch buffer and leaves the buffer unchanged.
C5_SmallCountNoOp ==
  (n <= 1 /\ (form = "vector" \/ ~arrayNull))
  => /\ pc \in {"call", "done"}
     /\ error = "SUCCESS"
     /\ steps = << >> /\ passes = << >>
     /\ temp_array = << >>
     /\ array = entry

C5_Witness ==
  /\ Returned /\ n = 1 /\ ~arrayNull /\ form = "pointer"
  /\ data_type_ = "SIGNED_INTEGER" /\ direction_ = "DESCENDING"

\* C6: a call with a null buffer and N > 0 fails with NULL_POINTER before
\* any other check or work.
C6_NullFails ==
  (arrayNull /\ n > 0 /\ pc # "call")
  => /\ Failed /\ error = "NULL_POINTER"
     /\ steps = << >> /\ passes = << >> /\ temp_array = << >>

C6_Witness ==
  /\ Failed /\ error = "NULL_POINTER" /\ arrayNull /\ n > 1
  /\ data_type_ = "IEEE754_DOUBLE" /\ elemSize # SizeofDouble

\* C7: a call with a null buffer and N = 0 returns without error.
C7_NullEmptyReturns ==
  (arrayNull /\ n = 0 /\ pc # "call") => (Returned /\ error = "SUCCESS")

WidthMismatch ==
  \/ data_type_ = "IEEE754_FLOAT" /\ elemSize # SizeofFloat
  \/ data_type_ = "IEEE754_DOUBLE" /\ elemSize # SizeofDouble

\* C8 as stated: a call on a non-null buffer with a floating-point tag and
\* a mismatching width fails with INVALID_ELEMENT_SIZE whatever N.
C8_MismatchFailsAnyN ==
  (~arrayNull /\ WidthMismatch /\ pc \notin {"call", "validate"})
  => (Failed /\ error = "INVALID_ELEMENT_SIZE")

\* C8 amended: a call on a non-null buffer of N >= 2 records with a
\* floating-point tag and a mismatching width fails with
\* INVALID_ELEMENT_SIZE; with N <= 1 the call returns before validation.
C8_MismatchFails ==
  (~arrayNull /\ WidthMismatch /\ pc \notin {"call", "validate"})
  => IF n >= 2 THEN Failed /\ error = "INVALID_ELEMENT_SIZE"
     ELSE Returned /\ error = "SUCCESS"

C8_Witness ==
  /\ Failed /\ error = "INVALID_ELEMENT_SIZE" /\ n >= 2
  /\ data_type_ = "IEEE754_FLOAT" /\ elemSize = SizeofDouble

\* C9: every failed call leaves the buffer as it was on entry.
C9_FailureLeavesBuffer == Failed => array = entry

(***************************************************************************)
(* The transforms alone: pre_process_data and post_process_data applied to *)
(* one record with no pass in between, in both orders.                     *)
(***************************************************************************)
MkFill(W, lo, fill, hi) ==
  [i \in 1..W |-> IF i = W THEN hi ELSE IF i = 1 THEN lo ELSE fill]

\* bit patterns with either sign, negative zero, infinities' neighbours and
\* NaNs among them
TransformPatterns(W) ==
  { MkFill(W, lo, fill, hi) :
      lo \in {0, 1, 255}, fill \in {0, 255},
      hi \in {0, 1, 127, 128, 129, 255} }

InitTransform ==
  /\ data_type_ \in {"SIGNED_INTEGER", "IEEE754_FLOAT", "IEEE754_DOUBLE"}
  /\ elemSize \in ElemSizes
  /\ validate_data_type(data_type_, elemSize) = "SUCCESS"
  /\ processing_order_ = "LSB_FIRST"
  /\ direction_ = "ASCENDING"
  /\ form = "pointer"
  /\ arrayNull = FALSE
  /\ n = 1
  /\ array \in [1..1 -> TransformPatterns(elemSize)]
  /\ entry = array
  /\ temp_array = << >>
  /\ byte_index = 0
  /\ need_post_processing = FALSE
  /\ pc = "t_start"
  /\ error = "SUCCESS"
  /\ steps = << >>
  /\ passes = << >>
  /\ ub = FALSE
  /\ pass_input = << >>
  /\ padded_buffer = << >>
  /\ string_stride = 0

TransformStep(from, to, out, label) ==
  /\ pc = from
  /\ array' = out
  /\ steps' = Append(steps, label)
  /\ pc' = to
  /\ UNCHANGED <<pass_input, padded_buffer, string_stride>>
  /\ UNCHANGED <<data_type_, processing_order_, direction_, elemSize, form,
                 arrayNull, n, entry, temp_array, byte_index,
                 need_post_processing, error, passes, ub>>

ApplyForward ==
  TransformStep("t_start", "t_forward",
                pre_process_data(data_type_, array)[1], "transform")

ApplyInverse ==
  TransformStep("t_forward", "t_round_trip",
                post_process_data(data_type_, array), "inverse")

ApplyInverseFirst ==
  TransformStep("t_start", "t_inverse",
                post_process_data(data_type_, array), "inverse")

ApplyForwardAfter ==
  TransformStep("t_inverse", "t_round_trip",
                pre_process_data(data_type_, array)[1], "transform")

NextTransform ==
  \/ ApplyForward
  \/ ApplyInverse
  \/ ApplyInverseFirst
  \/ ApplyForwardAfter

SpecTransform == InitTransform /\ [][NextTransform]_vars

\* C10: forward then inverse returns the original bit pattern, for every
\* pattern (negative zero and NaN included); the forward transform is a
\* bijection: no two patterns share an image, and every pattern is the
\* image of its inverse-transformed pattern.
C10_RoundTrip ==
  /\ (pc = "t_round_trip") => (array = entry)
  /\ (pc = "t_forward") =>
        \A q \in TransformPatterns(elemSize) :
           (q # entry[1]) =>
              (pre_process_data(data_type_, <<q>>)[1][1] # array[1])

C10_Witness ==
  /\ pc = "t_round_trip" /\ steps = <<"transform", "inverse">>
  /\ data_type_ = "IEEE754_FLOAT" /\ IsNaN(entry[1]) /\ ~Negative(entry[1])
  /\ array = entry

\* IEEE-754 finite value: exponent not all ones (binary32 / binary64)
IsFinite(rec) ==
  LET W == Len(rec) IN
  IF W = 4 THEN ~(rec[4] % 128 = 127 /\ rec[3] >= 128)
  ELSE IF W = 8 THEN ~(rec[8] % 128 = 127 /\ rec[7] >= 240)
  ELSE TRUE

\* a < b in the order of the configured numeric tag
NumericLess(a, b) ==
  IF data_type_ = "SIGNED_INTEGER" THEN SignedLE(a, b) /\ a # b
  ELSE /\ IsFinite(a) /\ IsFinite(b)
       /\ FloatLE(a, b) /\ ~FloatLE(b, a)

\* the forward transform of one record under the configured tag
Forward(rec) == pre_process_data(data_type_, <<rec>>)[1][1]

\* C11: the forward transform is order-preserving: a < b in the type's
\* order makes the transformed a strictly smaller than the transformed b as
\* unsigned integers; for SIGNED_INTEGER it changes the sign bit (top bit of
\* the highest-addressed byte) and nothing else.
C11_OrderPreserving ==
  (pc = "t_forward") =>
     /\ \A q \in TransformPatterns(elemSize) :
          /\ NumericLess(entry[1], q)
               => ULessFrom(array[1], Forward(q), elemSize)
          /\ NumericLess(q, entry[1])
               => ULessFrom(Forward(q), array[1], elemSize)
     /\ (data_type_ = "SIGNED_INTEGER") =>
          /\ \A i \in 1..(elemSize - 1) : array[1][i] = entry[1][i]
          /\ array[1][elemSize] - entry[1][elemSize] \in {128, -128}

C11_Witness ==
  /\ pc = "t_forward" /\ data_type_ = "IEEE754_DOUBLE"
  /\ Negative(entry[1]) /\ ~IsZero(entry[1]) /\ IsFinite(entry[1])
  /\ \E q \in TransformPatterns(elemSize) :
        /\ Negative(q) /\ NumericLess(entry[1], q)
        /\ ULessFrom(array[1], Forward(q), elemSize)

(***************************************************************************)
(* The driver's fixed-length string tests (src/main.cpp, test_strings and  *)
(* test_strings_descending): n strings are copied NUL-padded into          *)
(* padded_buffer at stride max_len + 1, and a sorter over element type     *)
(* char is called as sort(padded_buffer.data(), n).                        *)
(***************************************************************************)
\* the strings the tests are run on (bytes of 'a', 'b', 'c')
Words == { <<97>>, <<98>>, <<97, 98>>, <<98, 97>>, <<99, 97, 98>> }

SizeofChar == 1

RECURSIVE MaxLengthFrom(_, _, _)
MaxLengthFrom(arr, i, max_length) ==
  IF i > Len(arr) THEN max_length
  ELSE MaxLengthFrom(arr, i + 1,
                     IF Len(arr[i]) > max_length THEN Len(arr[i])
                     ELSE max_length)

get_max_string_length(arr) == MaxLengthFrom(arr, 1, 0)

\* strncpy(dest, str, size) followed by dest[size - 1] = 0
PadString(str, size) ==
  [i \in 1..size |-> IF i <= Len(str) /\ i < size THEN str[i] ELSE 0]

\* the byte buffer holding the padded strings one after the other
PaddedBuffer(strs, size) ==
  [i \in 1..(Len(strs) * size) |->
     PadString(strs[((i - 1) \div size) + 1], size)[((i - 1) % size) + 1]]

\* the records of stride size the driver reads out of a byte buffer
RecordsOf(buf, size) ==
  [k \in 1..(Len(buf) \div size) |->
     [i \in 1..size |-> buf[(k - 1) * size + i]]]

\* the n elements of type T = char that sort(T*, n) is given
ElementsOf(buf, count) == [k \in 1..count |-> <<buf[k]>>]

InitDriver ==
  /\ \E original_strings \in UNION { [1..k -> Words] : k \in 1..MaxN } :
       LET size == get_max_string_length(original_strings) + 1
       IN  /\ string_stride = size
           /\ padded_buffer = PaddedBuffer(original_strings, size)
           /\ n = Len(original_strings)
  /\ data_type_ = "UNSIGNED_OR_STRING"
  /\ processing_order_ = "MSB_FIRST"
  /\ direction_ \in Directions
  /\ elemSize = SizeofChar
  /\ form = "pointer"
  /\ arrayNull = FALSE
  /\ array = ElementsOf(padded_buffer, n)
  /\ entry = array
  /\ temp_array = << >>
  /\ byte_index = 0
  /\ need_post_processing = FALSE
  /\ pc = "call"
  /\ error = "SUCCESS"
  /\ steps = << >>
  /\ passes = << >>
  /\ ub = FALSE
  /\ pass_input = << >>

\* the steps of sort such a call can take
NextDriver ==
  \/ Enter
  \/ Validate
  \/ PreProcess
  \/ StringSort
  \/ StringSortNoMemory

SpecDriver == InitDriver /\ [][NextDriver]_vars

\* the driver's buffer now: the sorter's elements are its first n bytes
BufferNow ==
  [i \in 1..Len(padded_buffer) |->
     IF i <= Len(array) THEN array[i][1] ELSE padded_buffer[i]]

\* C12: the driver's call reorders the n whole records of stride W into
\* ascending lexicographic order (Descending: the reverse), each record kept
\* intact, and the string sorter works at the caller's stride W.
C12_DriverStringsSorted ==
  Returned =>
    LET before == RecordsOf(padded_buffer, string_stride)
        after  == RecordsOf(BufferNow, string_stride)
    IN  /\ IsPermutation(after, before)
        /\ \A i, j \in 1..Len(after) :
             (i < j) => IF direction_ = "ASCENDING"
                        THEN MemLE(after[i], after[j])
                        ELSE MemLE(after[j], after[i])
        /\ (n >= 2) => (elemSize = string_stride)

(***************************************************************************)
(* Properties of the pass engine.                                          *)
(***************************************************************************)
\* a pass has just run: pass_input is the buffer it was given, array the
\* buffer it left, the last entry of passes its byte offset
AfterPass == pc \in {"passes", "post"} /\ passes # << >>

LastOffset == passes[Len(passes)]

\* the stable sort of arr by the byte at offset b: the record at place k is
\* the one with k - 1 records before it by (byte, position)
StableSortByByte(arr, b) ==
  LET before(j, i) == \/ arr[j][b + 1] < arr[i][b + 1]
                      \/ arr[j][b + 1] = arr[i][b + 1] /\ j < i
      rank(i) == Cardinality({j \in 1..Len(arr) : before(j, i)})
  IN  [k \in 1..Len(arr) |->
         arr[CHOOSE i \in 1..Len(arr) : rank(i) = k - 1]]

\* C13: one pass at byte offset b is a stable sort by that byte: the buffer
\* after it is a permutation of the buffer before it, non-decreasing in the
\* byte at b, with equal-byte records in their former order; every record,
\* index 0 included, is placed, so no scratch slot is left unwritten.
C13_PassIsStableSort ==
  AfterPass =>
       /\ IsPermutation(array, pass_input)
       /\ \A i, j \in 1..Len(array) :
            (i < j) => array[i][LastOffset + 1] <= array[j][LastOffset + 1]
       /\ array = StableSortByByte(pass_input, LastOffset)
       /\ LET fresh == [i \in 1..Len(pass_input) |-> Uninit]
              t == ScratchAfterPass(pass_input, LastOffset, fresh)
          IN  \A i \in 1..Len(t) : t[i] # Uninit

(***************************************************************************)
(* Properties of the orchestration.                                        *)
(***************************************************************************)
IsPrefix(a, b) == Len(a) <= Len(b) /\ \A i \in 1..Len(a) : a[i] = b[i]

\* a call that passes the entry checks and the width validation with a
\* numeric tag
NumericSort ==
  /\ NumericTag /\ ~arrayNull /\ n >= 2
  /\ validate_data_type(data_type_, elemSize) = "SUCCESS"

\* the steps of a numeric sort of W-byte records, in order
NumericSteps(W, dir) ==
  <<"validate", "transform", "alloc">>
    \o [i \in 1..W |-> "pass"]
    \o <<"inverse">>
    \o (IF dir = "DESCENDING" THEN <<"reverse">> ELSE << >>)

StringSorted ==
  /\ Returned /\ ~arrayNull /\ n >= 2
  /\ data_type_ = "UNSIGNED_OR_STRING" /\ processing_order_ = "MSB_FIRST"

\* a record padded with zero bytes: no non-zero byte follows a zero byte
Padded(rec) ==
  \A i, j \in 1..Len(rec) : (i < j /\ rec[i] = 0) => rec[j] = 0

\* two records that agree up to and including a zero byte
AgreeThroughZero(a, b) ==
  \E k \in 1..Len(a) : a[k] = 0 /\ \A i \in 1..k : a[i] = b[i]

RECURSIVE RunPasses(_, _, _, _, _, _)
RunPasses(order, W, index, arr, temp, g) ==
  IF index < W
  THEN LET b == PassOffset(order, index)
           r == ReadScratch(ScratchAfterPass(arr, b, temp), g)
       IN  RunPasses(order, W, index + 1, r, r, g)
  ELSE arr

\* the byte offsets handed to counting_sort_byte, in order
PassOffsets(order, W) == [i \in 1..W |-> PassOffset(order, i - 1)]

\* the buffer a call on the pass-engine path returns
SortResult(type, order, dir, W, arr, g) ==
  LET r        == pre_process_data(type, arr)
      sorted   == RunPasses(order, W, 0, r[1],
                            [i \in 1..Len(arr) |-> Uninit], g)
      restored == IF r[2] THEN post_process_data(type, sorted) ELSE sorted
  IN  IF NeedReverse(dir, type) THEN reverse_array(restored) ELSE restored

OtherOrder(order) ==
  IF order = "LSB_FIRST" THEN "MSB_FIRST" ELSE "LSB_FIRST"

StepsContain(label) == \E i \in 1..Len(steps) : steps[i] = label

C17_ComparatorStrict ==
  (pc = "strings") =>
     \A p, q \in 1..Len(array) :
        /\ ~Compare(direction_, array, p, p)
        /\ ~(Compare(direction_, array, p, q)
               /\ Compare(direction_, array, q, p))

(***************************************************************************)
(* Memory safety of counting_sort_byte.  The loop index is a size_t that   *)
(* is decremented before it is tested: it wraps only when the loop starts  *)
(* from n = 0, which the first conjunct excludes.                          *)
(***************************************************************************)
\* C18: counting_sort_byte runs only with n >= 2 on buffers of n records;
\* in every pass each bucket counter is positive when it is decremented,
\* every output position is within 0..n-1, the loop index stays within
\* 0..n-1 and the loop ends, and the byte read lies inside its record.
C18_PassMemorySafe ==
  /\ (pc = "passes") =>
        /\ n >= 2
        /\ Len(array) = n /\ Len(temp_array) = n
        /\ byte_index < elemSize
        /\ \A i \in 1..n : Len(array[i]) = elemSize
  /\ AfterPass =>
        LET log == PlaceLog(pass_input, LastOffset, n - 1,
                            CumulativeCount(pass_input, LastOffset))
        IN  /\ LastOffset \in 0..(elemSize - 1)
            /\ Len(pass_input) = n
            /\ Len(log) = n - 1
            /\ \A k \in 1..Len(log) :
                  /\ log[k].counter > 0
                  /\ log[k].outputPos \in 0..(n - 1)
                  /\ log[k].index \in 0..(n - 1)
            /\ \A v \in 0..(RADIX_BASE - 1) :
                  CumulativeCount(pass_input, LastOffset)[v] \in 0..n

C18_Witness ==
  /\ AfterPass /\ n = MaxN /\ elemSize = SizeofDouble
  /\ LastOffset = SizeofDouble - 1
  /\ \E i, j \in 1..n :
        pass_input[i][LastOffset + 1] # pass_input[j][LastOffset + 1]
  /\ array # pass_input

====
